---------------------------- MODULE Spec2Model ----------------------------
(***************************************************************************)
(* Vertex Pursuit: the recorder (src/vertex_pursuit_game.py) and the       *)
(* replay viewer (src/replay_viewer.py), with the record files they share. *)
(*                                                                         *)
(* Text is a sequence of one-character strings, so that formatting and     *)
(* parsing are computed character by character as Python's str(), int()    *)
(* and float() compute them.  A record file is a sequence of rows, a row a *)
(* sequence of fields, a field a text: the csv module's quoting layer is   *)
(* not modelled, because the fields the recorder writes hold only digits,   *)
(* a sign and a decimal point.                                             *)
(*                                                                         *)
(* Time is counted in ticks of 10^-FracDigits seconds.                     *)
(***************************************************************************)
EXTENDS Integers, Sequences, FiniteSets, TLC

VARIABLES
    \* ---- VertexPursuitGame fields (vertex_pursuit_game.py:45-56)
    tracking,            \* self.tracking
    mouse_positions,     \* self.mouse_positions, the in-progress record
    space_event,         \* self.space_event, the key flag
    start_time,          \* self.start_time
    save_prompt,         \* self.save_prompt
    next_participant,    \* self.next_participant
    participant_number,  \* self.participant_number
    trial_number,        \* self.trial_number
    running,             \* run()'s local `running`
    \* ---- environment of the recorder
    storage,             \* data/raw/trajectories: the names of the files in it
    written,             \* the file the latest step wrote: its name and rows
    now,                 \* the wall clock time.time() reads, in ticks
    \* ---- observation of the recorder (not program state)
    saved,               \* successful saves since trial_number was last 1
    discarded,           \* the save prompt was cancelled and no start accepted since
    advance_cancelled,   \* the advance prompt was cancelled for this participant
    leftover,            \* a failed write left a file under the current participant and trial
    persisted,           \* the record was saved and no start accepted since (SpecOnePass)
    \* ---- save/load round trip (pure functions applied to drawn inputs)
    rt_pc, rt_record, rt_participant, rt_trial, rt_disk, rt_loaded,
    \* ---- participant numbering over a drawn directory
    nm_pc, nm_dir, nm_result,
    \* ---- the replay viewer: VertexPursuitReplay
    vw_pc,               \* "off", "idle" (run's loop), "replay" (_replay_trial's loop), "closed"
    vw_disk,             \* data/raw/trajectories as the viewer finds it: name -> rows
    is_paused,           \* self.is_paused
    spacebar_events,     \* self.spacebar_events, the markers
    events_data,         \* _replay_trial's events_data
    counter,             \* _replay_trial's counter, the cursor
    previous_position,   \* _replay_trial's previous_position
    previous_timestamp,  \* _replay_trial's previous_timestamp, in ticks
    result,              \* what the latest _replay_trial returned
    status_message,      \* the status line on the screen
    \* ---- observation of the viewer (not program state)
    delays,              \* ticks slept while each sample of the pass was processed
    segments             \* the line segments drawn in the pass

recorderVars == <<tracking, mouse_positions, space_event, start_time, save_prompt,
                  next_participant, participant_number, trial_number, running,
                  storage, written, now, saved, discarded,
                  advance_cancelled, leftover, persisted>>
rtVars == <<rt_pc, rt_record, rt_participant, rt_trial, rt_disk, rt_loaded>>
nmVars == <<nm_pc, nm_dir, nm_result>>
vwVars == <<vw_pc, vw_disk, is_paused, spacebar_events, events_data, counter,
            previous_position, previous_timestamp, result, status_message,
            delays, segments>>
vars == <<recorderVars, rtVars, nmVars, vwVars>>

---------------------------------------------------------------------------
(* Bounds of the model *)

\* longest in-progress record the motion handler is driven to
MaxSamples == 1
\* the wall clock is advanced at most this many ticks
MaxTime == 1
\* saves are driven while trial_number is below this
MaxTrialNumber == 7
\* participants are advanced while participant_number is below this
MaxParticipantNumber == 3
\* longest record drawn for the round trip
MaxRecordLen == 2
\* data rows a drawn file may hold
MaxRows == 2

(* Program constants *)

\* self.max_trials
max_trials == 5
\* resolution of the modelled clock: a tick is 10^-FracDigits seconds
FracDigits == 3

---------------------------------------------------------------------------
(* Text: str(), int(), float() *)

DigitChars == <<"0", "1", "2", "3", "4", "5", "6", "7", "8", "9">>
IsDigit(c) == \E i \in 1..10 : DigitChars[i] = c
DigitVal(c) == (CHOOSE i \in 1..10 : DigitChars[i] = c) - 1

RECURSIVE Pow10(_)
Pow10(k) == IF k = 0 THEN 1 ELSE 10 * Pow10(k - 1)

Abs(n) == IF n < 0 THEN -n ELSE n

\* the decimal digits of a natural number, most significant first
RECURSIVE NatText(_)
NatText(n) ==
    IF n < 10 THEN <<DigitChars[n + 1]>>
    ELSE NatText(n \div 10) \o <<DigitChars[(n % 10) + 1]>>

\* str(n) for an int n
IntText(n) == IF n < 0 THEN <<"-">> \o NatText(-n) ELSE NatText(n)

\* n written with exactly k digits (n < 10^k)
RECURSIVE PadText(_, _)
PadText(n, k) ==
    IF k = 0 THEN <<>>
    ELSE PadText(n \div 10, k - 1) \o <<DigitChars[(n % 10) + 1]>>

\* s without its trailing "0" characters, one character kept at least
RECURSIVE StripTrailingZeros(_)
StripTrailingZeros(s) ==
    IF Len(s) > 1 /\ s[Len(s)] = "0"
    THEN StripTrailingZeros(SubSeq(s, 1, Len(s) - 1))
    ELSE s

\* variant: the fraction is written without its leading zeros
FloatTextMissingPad(ticks) ==
    (IF ticks < 0 THEN <<"-">> ELSE <<>>)
    \o NatText(Abs(ticks) \div Pow10(FracDigits))
    \o <<".">>
    \o NatText(Abs(ticks) % Pow10(FracDigits))
\* repr(t) for the float t of `ticks` ticks: "0.05", "0.2", "1.0", "-0.5"
FloatText(ticks) ==
    (IF ticks < 0 THEN <<"-">> ELSE <<>>)
    \o NatText(Abs(ticks) \div Pow10(FracDigits))
    \o <<".">>
    \o StripTrailingZeros(PadText(Abs(ticks) % Pow10(FracDigits), FracDigits))

\* str.strip() for blanks
RECURSIVE StripLeft(_)
StripLeft(s) == IF s # <<>> /\ s[1] = " " THEN StripLeft(Tail(s)) ELSE s
RECURSIVE StripRight(_)
StripRight(s) ==
    IF s # <<>> /\ s[Len(s)] = " " THEN StripRight(SubSeq(s, 1, Len(s) - 1)) ELSE s
Strip(s) == StripRight(StripLeft(s))

HasSign(s) == s # <<>> /\ s[1] \in {"+", "-"}
Unsigned(s) == IF HasSign(s) THEN Tail(s) ELSE s

\* digits, with single "_" allowed between digits (Python's digit grouping)
IsDigitGroup(s) ==
    /\ s # <<>>
    /\ IsDigit(s[1])
    /\ IsDigit(s[Len(s)])
    /\ \A i \in 1..Len(s) : IsDigit(s[i]) \/ s[i] = "_"
    /\ \A i \in 1..(Len(s) - 1) : ~(s[i] = "_" /\ s[i + 1] = "_")

\* the value of the digits of s, "_" skipped
RECURSIVE DigitsValue(_)
DigitsValue(s) ==
    IF s = <<>> THEN 0
    ELSE IF s[Len(s)] = "_" THEN DigitsValue(SubSeq(s, 1, Len(s) - 1))
    ELSE 10 * DigitsValue(SubSeq(s, 1, Len(s) - 1)) + DigitVal(s[Len(s)])

\* the number of digits of s, "_" skipped
RECURSIVE DigitCount(_)
DigitCount(s) ==
    IF s = <<>> THEN 0
    ELSE DigitCount(Tail(s)) + (IF s[1] = "_" THEN 0 ELSE 1)

\* int(s) succeeds (otherwise it raises ValueError)
IsIntText(s) == IsDigitGroup(Unsigned(Strip(s)))
\* int(s)
ParseInt(s) ==
    LET t == Strip(s)
        v == DigitsValue(Unsigned(t))
    IN  IF HasSign(t) /\ t[1] = "-" THEN -v ELSE v

\* position of the first "." of s, 0 when there is none
DotAt(s) ==
    IF \E i \in 1..Len(s) : s[i] = "."
    THEN CHOOSE i \in 1..Len(s) : s[i] = "." /\ \A j \in 1..(i - 1) : s[j] # "."
    ELSE 0
IntPart(s) == IF DotAt(s) = 0 THEN s ELSE SubSeq(s, 1, DotAt(s) - 1)
FracPart(s) == IF DotAt(s) = 0 THEN <<>> ELSE SubSeq(s, DotAt(s) + 1, Len(s))

\* float(s) succeeds: sign, digits, optional point and digits.  Exponents, inf
\* and nan are outside the texts of this model.
IsFloatText(s) ==
    LET u == Unsigned(Strip(s))
    IN  /\ IntPart(u) = <<>> \/ IsDigitGroup(IntPart(u))
        /\ FracPart(u) = <<>> \/ IsDigitGroup(FracPart(u))
        /\ IntPart(u) # <<>> \/ FracPart(u) # <<>>
\* float(s), in ticks; the texts of this model have at most FracDigits decimals
ParseFloat(s) ==
    LET t == Strip(s)
        u == Unsigned(t)
        f == FracPart(u)
        k == DigitCount(f)
        fv == IF k <= FracDigits
              THEN DigitsValue(f) * Pow10(FracDigits - k)
              ELSE DigitsValue(f) \div Pow10(k - FracDigits)
        v == DigitsValue(IntPart(u)) * Pow10(FracDigits) + fv
    IN  IF HasSign(t) /\ t[1] = "-" THEN -v ELSE v

---------------------------------------------------------------------------
(* File names *)

NamePrefix == <<"S", "H", "S", "A", "_">>
NameSuffix == <<".", "c", "s", "v">>

StartsWith(s, p) == Len(s) >= Len(p) /\ SubSeq(s, 1, Len(p)) = p
EndsWith(s, p) == Len(s) >= Len(p) /\ SubSeq(s, Len(s) - Len(p) + 1, Len(s)) = p

\* f"SHSA_{self.participant_number}_{self.trial_number}.csv"
TrajectoryFileName(p, t) ==
    NamePrefix \o IntText(p) \o <<"_">> \o IntText(t) \o NameSuffix

\* the viewer's f"SHSA_{participant_number}_{trial_number}.csv"
GetDataFilePath(p, t) ==
    NamePrefix \o IntText(p) \o <<"_">> \o IntText(t) \o NameSuffix

\* data_dir.glob("SHSA_*.csv")
GlobMatches(name) ==
    /\ Len(name) >= Len(NamePrefix) + Len(NameSuffix)
    /\ StartsWith(name, NamePrefix)
    /\ EndsWith(name, NameSuffix)

\* Path.stem: the name without its last suffix
Stem(name) ==
    LET dots == {i \in 2..(Len(name) - 1) : name[i] = "."}
    IN  IF dots = {} THEN name
        ELSE SubSeq(name, 1, (CHOOSE i \in dots : \A j \in dots : j <= i) - 1)

\* str.split(sep)
RECURSIVE Split(_, _)
Split(s, sep) ==
    IF \E i \in 1..Len(s) : s[i] = sep
    THEN LET i == CHOOSE k \in 1..Len(s) :
                      s[k] = sep /\ \A j \in 1..(k - 1) : s[j] # sep
         IN  <<SubSeq(s, 1, i - 1)>> \o Split(SubSeq(s, i + 1, Len(s)), sep)
    ELSE <<s>>

SetMax(S) == CHOOSE m \in S : \A x \in S : x <= m

\* variant: only stems of exactly three parts are counted
GetNextParticipantNumberStrict(names) ==
    LET existing_files == {n \in names : GlobMatches(n)}
        existing_numbers ==
            {ParseInt(Split(Stem(f), "_")[2]) :
                f \in {g \in existing_files :
                          /\ Len(Split(Stem(g), "_")) = 3
                          /\ IsIntText(Split(Stem(g), "_")[2])}}
    IN  IF existing_files = {} THEN 1
        ELSE IF existing_numbers = {} THEN 0 + 1
        ELSE SetMax(existing_numbers) + 1
\* VertexPursuitGame._get_next_participant_number over the names of the directory
GetNextParticipantNumber(names) ==
    LET existing_files == {n \in names : GlobMatches(n)}
        existing_numbers ==
            {ParseInt(Split(Stem(f), "_")[2]) :
                f \in {g \in existing_files :
                          /\ Len(Split(Stem(g), "_")) >= 2
                          /\ IsIntText(Split(Stem(g), "_")[2])}}
    IN  IF existing_files = {} THEN 1
        ELSE IF existing_numbers = {} THEN 0 + 1
        ELSE SetMax(existing_numbers) + 1

---------------------------------------------------------------------------
(* Record files *)

\* ['Timestamp', 'X', 'Y', 'Event']
HeaderRow ==
    << <<"T", "i", "m", "e", "s", "t", "a", "m", "p">>, <<"X">>, <<"Y">>,
       <<"E", "v", "e", "n", "t">> >>

\* writer.writerow([timestamp, x, y, event])
FormatRow(sample) ==
    <<FloatText(sample[1]), IntText(sample[2]), IntText(sample[3]), IntText(sample[4])>>

\* the rows _save_trajectory_data writes for a record
CsvRows(record) ==
    <<HeaderRow>> \o [i \in 1..Len(record) |-> FormatRow(record[i])]

\* the disk after `content` is written under `name`
WriteFile(disk, name, content) ==
    [n \in (DOMAIN disk) \cup {name} |-> IF n = name THEN content ELSE disk[n]]

\* a data row the loader's try block accepts
RowParses(row) ==
    /\ Len(row) >= 4
    /\ IsFloatText(row[1])
    /\ IsIntText(row[2])
    /\ IsIntText(row[3])
    /\ IsIntText(row[4])

ParseRow(row) ==
    <<ParseFloat(row[1]), ParseInt(row[2]), ParseInt(row[3]), ParseInt(row[4])>>

\* variant: the loop stops at the first row that does not parse
RECURSIVE LoadRowsStopsAtMalformed(_)
LoadRowsStopsAtMalformed(rows) ==
    IF rows = <<>> THEN <<>>
    ELSE IF RowParses(Head(rows))
    THEN <<ParseRow(Head(rows))>> \o LoadRowsStopsAtMalformed(Tail(rows))
    ELSE <<>>
\* the loop of _load_trial_data over the data rows
RECURSIVE LoadRows(_)
LoadRows(rows) ==
    IF rows = <<>> THEN <<>>
    ELSE IF RowParses(Head(rows)) THEN <<ParseRow(Head(rows))>> \o LoadRows(Tail(rows))
    ELSE LoadRows(Tail(rows))

\* VertexPursuitReplay._load_trial_data: the samples, or the exception raised
LoadTrialData(disk, path) ==
    IF path \notin DOMAIN disk
    THEN [status |-> "FileNotFoundError", events_data |-> <<>>]
    ELSE IF disk[path] = <<>>
    THEN [status |-> "Exception", events_data |-> <<>>]
    ELSE IF LoadRows(Tail(disk[path])) = <<>>
    THEN [status |-> "Exception", events_data |-> <<>>]
    ELSE [status |-> "ok", events_data |-> LoadRows(Tail(disk[path]))]

---------------------------------------------------------------------------
(* The recorder: VertexPursuitGame *)

\* pointer positions the motion events carry (event.pos)
Positions == {<<412, 7>>}

\* outcomes of opening and writing the record file: written and closed, open()
\* raised IOError, or a write raised IOError after open() had created the file
IoOutcomes == {"ok", "open_failed", "write_failed"}

\* contents of the trajectories directory when the recorder starts: records an
\* earlier session left for participant 1
InitialStorages ==
    { {TrajectoryFileName(1, 1), TrajectoryFileName(1, 3)} }
\* the step wrote no file
NoFile == [name |-> <<>>, rows |-> <<>>]

\* time.time(): the clock never runs backwards and has advanced to t
ClockReads(t) == t \in now..MaxTime /\ now' = t

\* variant: the start key is accepted in every state
StartGuardAlways == TRUE
\* _handle_keydown, `key == K_s and not self.next_participant`
StartGuard == ~next_participant

\* _handle_keydown, start branch
StartTracking ==
    /\ \E t \in 0..MaxTime : ClockReads(t) /\ start_time' = t
    /\ tracking' = TRUE
    /\ mouse_positions' = <<>>
    /\ discarded' = FALSE
    /\ UNCHANGED <<space_event, save_prompt, next_participant, participant_number,
                   trial_number, running, storage, saved, advance_cancelled, leftover>>

\* _handle_keydown, stop branch
StopTracking ==
    /\ tracking' = FALSE
    /\ save_prompt' = TRUE
    /\ UNCHANGED <<mouse_positions, space_event, start_time, next_participant,
                   participant_number, trial_number, running, storage, now, saved,
                   discarded, advance_cancelled, leftover>>

\* variant: no check for an empty record
SaveTrajectoryDataWritesEmpty(io, flushed) ==
    LET filename == TrajectoryFileName(participant_number, trial_number)
    IN  CASE io = "ok" ->
                [ok |-> TRUE, disk |-> storage \cup {filename},
                 file |-> [name |-> filename, rows |-> CsvRows(mouse_positions)]]
          [] io = "open_failed" ->
                [ok |-> FALSE, disk |-> storage, file |-> NoFile]
          [] OTHER ->
                [ok |-> FALSE, disk |-> storage \cup {filename},
                 file |-> [name |-> filename,
                           rows |-> SubSeq(CsvRows(mouse_positions), 1, flushed)]]
\* _save_trajectory_data: its return value, the directory it leaves and the file
\* it wrote; `flushed` rows reached the disk before a write error.  The recorder
\* never reads a record file, so the model keeps the names in the directory, and
\* shows the rows a save writes in `written` at the step that writes them.
SaveTrajectoryData(io, flushed) ==
    LET filename == TrajectoryFileName(participant_number, trial_number)
    IN  IF mouse_positions = <<>>
        THEN [ok |-> FALSE, disk |-> storage, file |-> NoFile]
        ELSE CASE io = "ok" ->
                     [ok |-> TRUE, disk |-> storage \cup {filename},
                      file |-> [name |-> filename, rows |-> CsvRows(mouse_positions)]]
               [] io = "open_failed" ->
                     [ok |-> FALSE, disk |-> storage, file |-> NoFile]
               [] OTHER ->
                     [ok |-> FALSE, disk |-> storage \cup {filename},
                      file |-> [name |-> filename,
                                rows |-> SubSeq(CsvRows(mouse_positions), 1, flushed)]]

\* variant: the comparison is >= instead of >
TrialsCompletedOffByOne(t) == t >= max_trials
\* `self.trial_number > self.max_trials`
TrialsCompleted(t) == t > max_trials

\* _handle_keydown, confirm-save branch
ConfirmSave ==
    \E io \in IoOutcomes :
      \E flushed \in (IF io = "write_failed" THEN 0..Len(mouse_positions) ELSE {0}) :
        LET r == SaveTrajectoryData(io, flushed)
        IN  /\ r.ok => trial_number < MaxTrialNumber
            /\ storage' = r.disk
            /\ written' = r.file
            /\ IF r.ok
               THEN /\ trial_number' = trial_number + 1
                    /\ saved' = saved + 1
                    /\ next_participant' =
                           IF TrialsCompleted(trial_number + 1) THEN TRUE
                           ELSE next_participant
               ELSE UNCHANGED <<trial_number, saved, next_participant>>
            /\ save_prompt' = FALSE
            /\ leftover' = (~r.ok /\ (leftover \/ r.file # NoFile))
            /\ UNCHANGED <<tracking, mouse_positions, space_event, start_time,
                           participant_number, running, now, discarded,
                           advance_cancelled>>

\* _handle_keydown, cancel-save branch
CancelSave ==
    /\ save_prompt' = FALSE
    /\ discarded' = TRUE
    /\ UNCHANGED <<tracking, mouse_positions, space_event, start_time,
                   next_participant, participant_number, trial_number, running,
                   storage, now, saved, advance_cancelled, leftover>>

\* variant: the participant number is not raised
NextParticipantKeepsNumber ==
    /\ participant_number < MaxParticipantNumber
    /\ participant_number' = participant_number
    /\ trial_number' = 1
    /\ next_participant' = FALSE
    /\ saved' = 0
    /\ advance_cancelled' = FALSE
    /\ leftover' = FALSE
    /\ UNCHANGED <<tracking, mouse_positions, space_event, start_time, save_prompt,
                   running, storage, now, discarded>>
\* _handle_keydown, next-participant branch
NextParticipant ==
    /\ participant_number < MaxParticipantNumber
    /\ participant_number' = participant_number + 1
    /\ trial_number' = 1
    /\ next_participant' = FALSE
    /\ saved' = 0
    /\ advance_cancelled' = FALSE
    /\ leftover' = FALSE
    /\ UNCHANGED <<tracking, mouse_positions, space_event, start_time, save_prompt,
                   running, storage, now, discarded>>

\* variant: the trial number is reset
StayWithParticipantResetsTrial ==
    /\ next_participant' = FALSE
    /\ trial_number' = 1
    /\ advance_cancelled' = TRUE
    /\ UNCHANGED <<tracking, mouse_positions, space_event, start_time, save_prompt,
                   participant_number, running, storage, now, saved, discarded,
                   leftover>>
\* _handle_keydown, stay-with-participant branch
StayWithParticipant ==
    /\ next_participant' = FALSE
    /\ advance_cancelled' = TRUE
    /\ UNCHANGED <<tracking, mouse_positions, space_event, start_time, save_prompt,
                   participant_number, trial_number, running, storage, now, saved,
                   discarded, leftover>>

\* _handle_keydown, spacebar branch
SpaceDown ==
    /\ space_event' = 1
    /\ UNCHANGED <<tracking, mouse_positions, start_time, save_prompt,
                   next_participant, participant_number, trial_number, running,
                   storage, now, saved, discarded, advance_cancelled, leftover>>

\* run() leaves its loop and the process ends: the session object is gone, the
\* directory stays.  (Events of the batch the exit came in are still handed to
\* the handlers; the handlers never read `running`, so what they do then is what
\* they do before the exit.)
SessionEnds ==
    /\ running' = FALSE
    /\ tracking' = FALSE
    /\ mouse_positions' = <<>>
    /\ space_event' = 0
    /\ start_time' = 0
    /\ save_prompt' = FALSE
    /\ next_participant' = FALSE
    /\ participant_number' = 0
    /\ trial_number' = 1
    /\ saved' = 0
    /\ discarded' = FALSE
    /\ advance_cancelled' = FALSE
    /\ leftover' = FALSE
    /\ UNCHANGED <<storage, now>>

\* _handle_keydown returns False on K_ESCAPE
QuickExit == SessionEnds

\* a key no branch takes
NoBranch ==
    UNCHANGED <<tracking, mouse_positions, space_event, start_time, save_prompt,
                   next_participant, participant_number, trial_number, running,
                   storage, now, saved, discarded, advance_cancelled, leftover>>

\* _handle_keydown: the if/elif chain
HandleKeydown(key) ==
    IF key = "K_s" /\ StartGuard THEN StartTracking
    ELSE IF key = "K_q" THEN StopTracking
    ELSE IF key = "K_y" /\ save_prompt THEN ConfirmSave
    ELSE IF key = "K_n" /\ save_prompt THEN CancelSave
    ELSE IF key = "K_y" /\ next_participant THEN NextParticipant
    ELSE IF key = "K_n" /\ next_participant THEN StayWithParticipant
    ELSE IF key = "K_SPACE" THEN SpaceDown
    ELSE IF key = "K_ESCAPE" THEN QuickExit
    ELSE NoBranch

\* _handle_keyup
HandleKeyup(key) ==
    /\ space_event' = IF key = "K_SPACE" THEN 0 ELSE space_event
    /\ UNCHANGED <<tracking, mouse_positions, start_time, save_prompt,
                   next_participant, participant_number, trial_number, running,
                   storage, now, saved, discarded, advance_cancelled, leftover>>

\* variant: no check of self.tracking
HandleMouseMotionAlways(pos) ==
    /\ \E t \in 0..MaxTime :
          /\ ClockReads(t)
          /\ mouse_positions' =
                 Append(mouse_positions, <<t - start_time, pos[1], pos[2], space_event>>)
    /\ UNCHANGED <<tracking, space_event, start_time, save_prompt, next_participant,
                   participant_number, trial_number, running, storage, saved,
                   discarded, advance_cancelled, leftover>>
\* _handle_mouse_motion
HandleMouseMotion(pos) ==
    /\ IF tracking
       THEN \E t \in 0..MaxTime :
               /\ ClockReads(t)
               /\ mouse_positions' =
                      Append(mouse_positions,
                             <<t - start_time, pos[1], pos[2], space_event>>)
       ELSE UNCHANGED <<mouse_positions, now>>
    /\ UNCHANGED <<tracking, space_event, start_time, save_prompt, next_participant,
                   participant_number, trial_number, running, storage, saved,
                   discarded, advance_cancelled, leftover>>

(* run(): one step per event taken from pygame.event.get() *)

KeyDown(key) ==
    /\ running
    /\ HandleKeydown(key)
    /\ (key = "K_y" /\ save_prompt) \/ written' = NoFile
    /\ UNCHANGED <<persisted, rtVars, nmVars, vwVars>>

KeyDownS == KeyDown("K_s")
KeyDownQ == KeyDown("K_q")
KeyDownY == KeyDown("K_y")
KeyDownN == KeyDown("K_n")
KeyDownSpace == KeyDown("K_SPACE")
KeyDownEscape == KeyDown("K_ESCAPE")

KeyUpSpace ==
    /\ running
    /\ HandleKeyup("K_SPACE")
    /\ written' = NoFile
    /\ UNCHANGED <<persisted, rtVars, nmVars, vwVars>>

MouseMotion ==
    /\ running
    /\ tracking => Len(mouse_positions) < MaxSamples
    /\ \E pos \in Positions : HandleMouseMotion(pos)
    /\ written' = NoFile
    /\ UNCHANGED <<persisted, rtVars, nmVars, vwVars>>

QuitEvent ==
    /\ running
    /\ SessionEnds
    /\ written' = NoFile
    /\ UNCHANGED <<persisted, rtVars, nmVars, vwVars>>

RtIdle ==
    /\ rt_pc = "idle" /\ rt_record = <<>> /\ rt_participant = 0 /\ rt_trial = 0
    /\ rt_disk = <<>> /\ rt_loaded = <<>>
NmIdle == nm_pc = "idle" /\ nm_dir = {} /\ nm_result = 0
\* the viewer is not running
VwOff ==
    /\ vw_pc = "off"
    /\ vw_disk = <<>>
    /\ is_paused = TRUE
    /\ spacebar_events = <<>>
    /\ events_data = <<>>
    /\ counter = 0
    /\ previous_position = <<-1, -1>>
    /\ previous_timestamp = 0
    /\ result = "none"
    /\ status_message = <<>>
    /\ delays = <<>>
    /\ segments = <<>>

\* VertexPursuitGame.__init__
RecorderInit ==
    /\ tracking = FALSE
    /\ mouse_positions = <<>>
    /\ space_event = 0
    /\ start_time = 0
    /\ save_prompt = FALSE
    /\ next_participant = FALSE
    /\ storage \in InitialStorages
    /\ participant_number = GetNextParticipantNumber(storage)
    /\ trial_number = 1
    /\ running = TRUE
    /\ written = NoFile
    /\ now = 0
    /\ saved = 0
    /\ discarded = FALSE
    /\ advance_cancelled = FALSE
    /\ leftover = FALSE
    /\ persisted = FALSE

Init == RecorderInit /\ RtIdle /\ NmIdle /\ VwOff

Next ==
    \/ KeyDownS
    \/ KeyDownQ
    \/ KeyDownY
    \/ KeyDownN
    \/ KeyDownSpace
    \/ KeyDownEscape
    \/ KeyUpSpace
    \/ MouseMotion
    \/ QuitEvent

Spec == Init /\ [][Next]_vars

---------------------------------------------------------------------------
(* Claims about the recorder *)

\* the fields a command can change that the player sees
sessionFields == <<tracking, mouse_positions, participant_number, trial_number,
                   save_prompt, next_participant>>

\* C1: the fifth successful save since trial 1 raises the advance prompt, clears
\* the save prompt and leaves trial_number at max_trials + 1; the advance prompt
\* is never raised after fewer than max_trials successful saves; the trial number
\* is one more than the number of successful saves.
C1_FifthSaveRaisesAdvancePrompt ==
    /\ [][trial_number = saved + 1 /\ trial_number' = saved' + 1]_vars
    /\ [][(~next_participant /\ next_participant') => saved' >= max_trials]_vars
    /\ [][(saved = max_trials - 1 /\ saved' = max_trials /\ KeyDownY)
            => (next_participant' /\ ~save_prompt' /\ trial_number' = max_trials + 1)]_vars
C1_Witness ==
    /\ next_participant /\ ~save_prompt
    /\ saved = max_trials /\ trial_number = max_trials + 1

\* C2: in every state with the advance prompt pending, a save prompt pending as
\* well or not, a confirm adds one to participant_number, resets trial_number to
\* 1 and clears the advance prompt.
C2_ConfirmAlwaysAdvances ==
    [][(next_participant /\ KeyDownY)
         => (/\ participant_number' = participant_number + 1
             /\ trial_number' = 1
             /\ ~next_participant')]_vars
\* with both prompts pending the confirm saved the stale record as trial
\* max_trials + 1 and the advance prompt is still there
C2_Witness ==
    /\ next_participant /\ ~save_prompt
    /\ written # NoFile
    /\ written.name = TrajectoryFileName(participant_number, max_trials + 1)
    /\ trial_number = max_trials + 2

\* C3: once the advance prompt was cancelled, and until the participant changes,
\* no start command begins tracking and no record file with a trial number above
\* max_trials is written.
C3_NoRecordingAfterCancel ==
    [][advance_cancelled
         => (/\ ~(KeyDownS /\ ~tracking /\ tracking')
             /\ ~(written' # NoFile /\ trial_number > max_trials))]_vars
\* after the cancel a sixth record of the same participant was written
C3_Witness ==
    /\ advance_cancelled /\ ~next_participant
    /\ written # NoFile
    /\ written.name = TrajectoryFileName(participant_number, max_trials + 1)
    /\ TrajectoryFileName(participant_number, max_trials + 1) \in storage

\* C4: a cancel at the advance prompt (no save prompt pending) leaves
\* participant_number, trial_number, the directory and the in-progress record as
\* they are, writes nothing and clears the advance prompt; after the fifth
\* successful save trial_number stays max_trials + 1.
C4_CancelAdvanceFrame ==
    [][(next_participant /\ ~save_prompt /\ KeyDownN)
         => (/\ participant_number' = participant_number
             /\ trial_number' = trial_number
             /\ (saved = max_trials => trial_number' = max_trials + 1)
             /\ storage' = storage
             /\ written' = NoFile
             /\ mouse_positions' = mouse_positions
             /\ ~next_participant')]_vars
C4_Witness ==
    /\ advance_cancelled /\ ~next_participant
    /\ saved = max_trials /\ trial_number = max_trials + 1

\* C5: after a cancel at the save prompt, no step writes a record file until a
\* start command is accepted.
C5_CancelledRecordNeverWritten ==
    [][discarded => written' = NoFile]_vars
\* the cancelled record was written by a later stop and confirm
C5_Witness ==
    /\ discarded /\ written # NoFile
    /\ written.rows = CsvRows(mouse_positions)
    /\ trial_number = 2

\* C6: a confirm at the save prompt with an empty in-progress record creates and
\* overwrites no file, leaves participant_number and trial_number as they are and
\* does not raise the advance prompt.
C6_EmptySaveFails ==
    [][(save_prompt /\ mouse_positions = <<>> /\ KeyDownY)
         => (/\ storage' = storage
             /\ written' = NoFile
             /\ participant_number' = participant_number
             /\ trial_number' = trial_number
             /\ next_participant' = next_participant)]_vars
\* a tracking pass that began after the clock had advanced was stopped with no
\* sample and its save was confirmed, not cancelled
C6_Witness ==
    /\ start_time = MaxTime /\ start_time > 0
    /\ ~tracking /\ ~save_prompt /\ mouse_positions = <<>> /\ ~discarded
    /\ running

\* C7: a start command outside the advance prompt leaves tracking on and the
\* in-progress record empty; with the advance prompt pending it changes none of
\* tracking, record, participant_number, trial_number and the prompts.
C7_StartAcceptedUnlessAdvancePrompt ==
    [][KeyDownS
         => IF next_participant
            THEN UNCHANGED sessionFields
            ELSE tracking' /\ mouse_positions' = <<>>]_vars
\* a start command was accepted while the save prompt was pending
C7_Witness ==
    tracking /\ save_prompt /\ mouse_positions = <<>> /\ ~next_participant

\* C8: a pointer-motion event appends one sample carrying the key flag when
\* tracking is on and leaves the record alone otherwise; a stop command turns
\* tracking off, only a start command turns it on, and while it is off the
\* record does not grow.
C8_MotionAppendsOnlyWhileTracking ==
    /\ [][MouseMotion
            => IF tracking
               THEN /\ Len(mouse_positions') = Len(mouse_positions) + 1
                    /\ SubSeq(mouse_positions', 1, Len(mouse_positions)) = mouse_positions
                    /\ mouse_positions'[Len(mouse_positions')][4] = space_event
               ELSE mouse_positions' = mouse_positions]_vars
    /\ [][KeyDownQ => ~tracking']_vars
    /\ [][(~tracking /\ tracking') => KeyDownS]_vars
    /\ [][~tracking => Len(mouse_positions') <= Len(mouse_positions)]_vars
\* a sample taken with the key held down, then a stop
C8_Witness ==
    /\ ~tracking /\ save_prompt
    /\ Len(mouse_positions) = 1 /\ mouse_positions[1][4] = 1

---------------------------------------------------------------------------
(* Save, then load: the recorder's save applied to a drawn record, the viewer's
   load applied to the directory it leaves *)

\* sample values of the drawn records: timestamps in ticks, positions, key flag
RtTimestamps == {0, 50, 1200}
RtPositions == {<<0, 0>>, <<412, 999>>}
RtSamples ==
    {<<t, pos[1], pos[2], e>> : t \in RtTimestamps, pos \in RtPositions, e \in {0, 1}}
\* records of 1..MaxRecordLen samples, in the order of their timestamps
RtRecords ==
    {r \in UNION {[1..n -> RtSamples] : n \in 1..MaxRecordLen} :
        \A i \in 1..(Len(r) - 1) : r[i][1] <= r[i + 1][1]}
RtParticipants == {1, 12}
RtTrials == {1, max_trials}

\* nothing has been loaded
NotLoaded == [status |-> "none", events_data |-> <<>>]

\* the recorder at its save prompt with the drawn record, participant and trial
RtInit ==
    /\ rt_record \in RtRecords
    /\ rt_participant \in RtParticipants
    /\ rt_trial \in RtTrials
    /\ rt_pc = "recorded"
    /\ rt_disk = <<>>
    /\ rt_loaded = NotLoaded
    /\ tracking = FALSE
    /\ mouse_positions = rt_record
    /\ space_event = 0
    /\ start_time = 0
    /\ save_prompt = TRUE
    /\ next_participant = FALSE
    /\ storage = {}
    /\ participant_number = rt_participant
    /\ trial_number = rt_trial
    /\ running = TRUE
    /\ written = NoFile
    /\ now = 0
    /\ saved = rt_trial - 1
    /\ discarded = FALSE
    /\ advance_cancelled = FALSE
    /\ leftover = FALSE
    /\ persisted = FALSE
    /\ NmIdle
    /\ VwOff

\* the confirm at the save prompt; the file it writes reaches the directory
RtSave ==
    /\ rt_pc = "recorded"
    /\ HandleKeydown("K_y")
    /\ rt_disk' = IF written' = NoFile THEN rt_disk
                  ELSE WriteFile(rt_disk, written'.name, written'.rows)
    /\ rt_pc' = IF trial_number' = trial_number + 1 THEN "saved" ELSE "save_failed"
    /\ UNCHANGED <<persisted, rt_record, rt_participant, rt_trial, rt_loaded, nmVars,
                   vwVars>>

\* the viewer loads the file of the drawn participant and trial
RtLoad ==
    /\ rt_pc = "saved"
    /\ rt_loaded' = LoadTrialData(rt_disk, GetDataFilePath(rt_participant, rt_trial))
    /\ rt_pc' = "loaded"
    /\ UNCHANGED <<rt_record, rt_participant, rt_trial, rt_disk, nmVars, recorderVars,
                   vwVars>>

RtNext == RtSave \/ RtLoad

SpecRoundTrip == RtInit /\ [][RtNext]_vars

\* C9: a record of at least one sample, saved under (participant, trial) and
\* loaded from the file the viewer names for that participant and trial, comes
\* back as the same samples in the same order.
C9_SaveLoadRoundTrip ==
    rt_pc = "loaded" => rt_loaded = [status |-> "ok", events_data |-> rt_record]
\* two samples, the first at 0.05 s, participant 12
C9_Witness ==
    /\ rt_pc = "loaded"
    /\ Len(rt_record) = 2 /\ rt_record[1][1] = 50 /\ rt_record[2][1] = 1200
    /\ rt_participant = 12
    /\ rt_loaded.events_data = rt_record

---------------------------------------------------------------------------
(* Participant numbering over a drawn directory *)

NameUniverse ==
    { TrajectoryFileName(1, 1), TrajectoryFileName(3, 2), TrajectoryFileName(3, 5),
      TrajectoryFileName(7, 1),
      NamePrefix \o <<"9">> \o NameSuffix,
      NamePrefix \o <<"5", "_", "2", "_", "o", "l", "d">> \o NameSuffix,
      NamePrefix \o <<"x", "_", "1">> \o NameSuffix,
      NamePrefix \o <<"8", "_", "1", ".", "t", "x", "t">>,
      <<"n", "o", "t", "e", "s", ".", "t", "x", "t">> }

\* the recorder is not running
RecorderOff ==
    /\ tracking = FALSE
    /\ mouse_positions = <<>>
    /\ space_event = 0
    /\ start_time = 0
    /\ save_prompt = FALSE
    /\ next_participant = FALSE
    /\ storage = {}
    /\ participant_number = 0
    /\ trial_number = 1
    /\ running = FALSE
    /\ written = NoFile
    /\ now = 0
    /\ saved = 0
    /\ discarded = FALSE
    /\ advance_cancelled = FALSE
    /\ leftover = FALSE
    /\ persisted = FALSE

NmInit ==
    /\ nm_dir \in SUBSET NameUniverse
    /\ nm_pc = "start"
    /\ nm_result = 0
    /\ RecorderOff
    /\ RtIdle
    /\ VwOff

\* __init__ calls _get_next_participant_number
NmScan ==
    /\ nm_pc = "start"
    /\ nm_result' = GetNextParticipantNumber(nm_dir)
    /\ nm_pc' = "done"
    /\ UNCHANGED <<nm_dir, recorderVars, rtVars, vwVars>>

NmNext == NmScan

SpecNumbering == NmInit /\ [][NmNext]_vars

\* participant and trial numbers a name of the convention may carry
NameNumbers == 0..24

\* the name is SHSA_{participant}_{trial}.csv
MatchesConvention(name) ==
    \E p \in NameNumbers, t \in NameNumbers :
        name = NamePrefix \o IntText(p) \o <<"_">> \o IntText(t) \o NameSuffix
\* the participant component of a name of the convention
ConventionParticipant(name) ==
    CHOOSE p \in NameNumbers :
        \E t \in NameNumbers :
            name = NamePrefix \o IntText(p) \o <<"_">> \o IntText(t) \o NameSuffix

\* the name is SHSA_{participant}.csv or SHSA_{participant}_{anything}.csv
HasParticipant(name, p) ==
    /\ StartsWith(name, NamePrefix \o IntText(p))
    /\ EndsWith(name, NameSuffix)
    /\ Len(name) >= Len(NamePrefix \o IntText(p)) + Len(NameSuffix)
    /\ \/ Len(name) = Len(NamePrefix \o IntText(p)) + Len(NameSuffix)
       \/ name[Len(NamePrefix \o IntText(p)) + 1] = "_"

\* C10 as stated: 1 when no name is of the convention, otherwise one more than
\* the largest participant among the names of the convention; every other name
\* is ignored.
C10_CountsOnlyConventionNames ==
    nm_pc = "done" =>
        LET matching == {n \in nm_dir : MatchesConvention(n)}
        IN  nm_result = IF matching = {} THEN 1
                        ELSE SetMax({ConventionParticipant(n) : n \in matching}) + 1

\* C10 as amended: the names counted are those of the form SHSA_{int}.csv or
\* SHSA_{int}_{anything}.csv, a trial component or not; the result is 1 when
\* there is none and otherwise one more than the largest such int; names outside
\* SHSA_*.csv and names whose second component is no int are ignored.
C10_CountsSecondComponent ==
    nm_pc = "done" =>
        LET counted == {p \in NameNumbers : \E n \in nm_dir : HasParticipant(n, p)}
        IN  nm_result = IF counted = {} THEN 1 ELSE SetMax(counted) + 1
\* participants 1, 3, 3 and 7 of the convention and SHSA_9.csv give 10
C10_Witness ==
    /\ nm_pc = "done"
    /\ {TrajectoryFileName(1, 1), TrajectoryFileName(3, 2), TrajectoryFileName(3, 5),
        TrajectoryFileName(7, 1), NamePrefix \o <<"9">> \o NameSuffix} \subseteq nm_dir
    /\ nm_result = 10

---------------------------------------------------------------------------
(* Load alone: the viewer's load applied to a drawn file *)

\* a thousandth of a second, in ticks
Ms(n) == n * Pow10(FracDigits - 3)

\* header rows of the drawn files: the expected one, another one, and a data row
\* where the header should be
LdHeaders ==
    { HeaderRow,
      << <<"t">>, <<"x">>, <<"y">>, <<"e">> >>,
      FormatRow(<<Ms(10), 1, 2, 0>>) }
\* data rows of the drawn files: rows the recorder writes, a row with a fifth
\* field, a row whose event is 7, and rows that do not parse
LdRows ==
    { FormatRow(<<Ms(50), 412, 7, 1>>),
      FormatRow(<<Ms(1200), -1, -1, 0>>),
      FormatRow(<<Ms(200), 3, 4, 0>>) \o << <<"z">> >>,
      FormatRow(<<Ms(200), 3, 4, 7>>),
      << >>,
      << FloatText(Ms(200)), IntText(5), IntText(6) >>,
      << FloatText(Ms(200)), <<"4", ".", "5">>, IntText(6), IntText(0) >>,
      << <<"t">>, IntText(5), IntText(6), IntText(1) >> }
LdContents ==
    UNION {[1..n -> LdRows] : n \in 0..MaxRows}

\* a file is in the directory under the name of participant 1, trial 1
LdInit ==
    /\ rt_pc = "stored"
    /\ rt_record = <<>>
    /\ rt_participant = 1
    /\ rt_trial = 1
    /\ \E h \in LdHeaders, rows \in LdContents :
          rt_disk = WriteFile(<<>>, GetDataFilePath(1, 1), <<h>> \o rows)
    /\ rt_loaded = NotLoaded
    /\ RecorderOff
    /\ NmIdle
    /\ VwOff

\* _load_trial_data on that file
LdLoad ==
    /\ rt_pc = "stored"
    /\ rt_loaded' = LoadTrialData(rt_disk, GetDataFilePath(rt_participant, rt_trial))
    /\ rt_pc' = "loaded"
    /\ UNCHANGED <<rt_record, rt_participant, rt_trial, rt_disk, nmVars, recorderVars,
                   vwVars>>

LdNext == LdLoad

SpecLoad == LdInit /\ [][LdNext]_vars

\* the data rows of the drawn file
LdDataRows == Tail(rt_disk[GetDataFilePath(rt_participant, rt_trial)])
\* the k-th smallest member of a set of indexes
KthOf(S, k) == CHOOSE i \in S : Cardinality({j \in S : j < i}) = k - 1

\* C11: whatever the header row is, the load returns the decoded rows that
\* parse, all of them and in file order, and it fails exactly when no data row
\* parses.
C11_LoadKeepsParsingRows ==
    rt_pc = "loaded" =>
        LET good == {i \in 1..Len(LdDataRows) : RowParses(LdDataRows[i])}
        IN  IF good = {}
            THEN rt_loaded.status = "Exception"
            ELSE /\ rt_loaded.status = "ok"
                 /\ Len(rt_loaded.events_data) = Cardinality(good)
                 /\ \A k \in 1..Cardinality(good) :
                       rt_loaded.events_data[k] = ParseRow(LdDataRows[KthOf(good, k)])
\* another header, a row that does not parse, then a row that does
C11_Witness ==
    /\ rt_pc = "loaded"
    /\ rt_disk[GetDataFilePath(1, 1)][1] # HeaderRow
    /\ Len(LdDataRows) = 2
    /\ ~RowParses(LdDataRows[1]) /\ RowParses(LdDataRows[2])
    /\ rt_loaded.status = "ok"
    /\ rt_loaded.events_data = <<ParseRow(LdDataRows[2])>>

---------------------------------------------------------------------------
(* The replay viewer: VertexPursuitReplay *)

\* min(delay, 0.1): a tenth of a second, in ticks
DelayCap == Pow10(FracDigits) \div 10
Min(a, b) == IF a <= b THEN a ELSE b

\* previous_position before the first sample: (-1, -1)
NoPosition == <<-1, -1>>

\* the files the viewer finds: three samples 0.0, 0.05, 0.2 s; three samples
\* beginning at (-1, -1) whose timestamps do not increase; another header, a row
\* that does not parse and one sample; a file of rows that do not parse
VwDisk ==
    LET f11 == CsvRows(<< <<Ms(0), 10, 10, 0>>, <<Ms(50), 20, 10, 1>>,
                          <<Ms(200), 20, 30, 0>> >>)
        f12 == CsvRows(<< <<Ms(100), -1, -1, 1>>, <<Ms(100), 5, 5, 0>>,
                          <<Ms(40), 6, 6, 1>> >>)
        f13 == << << <<"t">>, <<"x">>, <<"y">>, <<"e">> >>,
                  << FloatText(Ms(200)), IntText(5), IntText(6) >>,
                  FormatRow(<<Ms(300), 7, 8, 1>>) >>
        f21 == << HeaderRow,
                  << FloatText(Ms(200)), IntText(5), IntText(6) >>,
                  << <<"t">>, IntText(5), IntText(6), IntText(1) >> >>
    IN  WriteFile(WriteFile(WriteFile(WriteFile(<<>>,
            GetDataFilePath(1, 1), f11), GetDataFilePath(1, 2), f12),
            GetDataFilePath(1, 3), f13), GetDataFilePath(2, 1), f21)

\* what the user types at the two input() prompts
ParticipantInputs == {IntText(1), <<" ">> \o IntText(2), IntText(25), <<"x">>}
TrialInputs == {IntText(1), IntText(2), IntText(3), IntText(6)}

\* _get_trial_selection: (participant, trial), or <<>> for (None, None)
GetTrialSelection(participant_num, trial_num) ==
    IF /\ IsIntText(Strip(participant_num))
       /\ IsIntText(Strip(trial_num))
       /\ 1 <= ParseInt(Strip(participant_num))
       /\ ParseInt(Strip(participant_num)) <= 24
       /\ 1 <= ParseInt(Strip(trial_num))
       /\ ParseInt(Strip(trial_num)) <= 5
    THEN <<ParseInt(Strip(participant_num)), ParseInt(Strip(trial_num))>>
    ELSE <<>>

\* _draw_trajectory_segment: the segments it draws
DrawTrajectorySegment(start_pos, end_pos) ==
    IF start_pos # NoPosition THEN << <<start_pos, end_pos>> >> ELSE <<>>

\* variant: the delay is not capped
SleptUncapped(c, timestamp, prev_timestamp) ==
    IF c > 0 /\ timestamp - prev_timestamp > 0
    THEN timestamp - prev_timestamp
    ELSE 0
\* the ticks slept while the sample at `counter` is processed
Slept(c, timestamp, prev_timestamp) ==
    IF c > 0 /\ timestamp - prev_timestamp > 0
    THEN Min(timestamp - prev_timestamp, DelayCap)
    ELSE 0

\* VertexPursuitReplay.__init__ and the first lines of run()
VwInit ==
    /\ vw_pc = "idle"
    /\ vw_disk = VwDisk
    /\ is_paused = TRUE
    /\ spacebar_events = <<>>
    /\ events_data = <<>>
    /\ counter = 0
    /\ previous_position = NoPosition
    /\ previous_timestamp = 0
    /\ result = <<>>
    /\ status_message = <<"Press R to load a trial for replay", 0>>
    /\ delays = <<>>
    /\ segments = <<>>
    /\ RecorderOff
    /\ RtIdle
    /\ NmIdle

\* run() leaves its loop: pygame.quit()
VwClose ==
    /\ vw_pc' = "closed"

\* _replay_trial up to its loop: the load and the replay state
ReplayTrialBegins(filepath) ==
    LET loaded == LoadTrialData(vw_disk, filepath)
    IN  IF loaded.status # "ok"
        THEN \* except Exception: return -1, and run() stops on -1
             /\ result' = <<-1>>
             /\ VwClose
             /\ UNCHANGED <<spacebar_events, events_data, counter, previous_position,
                            previous_timestamp, status_message, delays, segments>>
        ELSE /\ events_data' = loaded.events_data
             /\ counter' = 0
             /\ previous_position' = NoPosition
             /\ previous_timestamp' = 0
             /\ spacebar_events' = <<>>
             /\ status_message' = <<"Press P to start replay", 0>>
             /\ delays' = <<>>
             /\ segments' = <<>>
             /\ vw_pc' = "replay"
             /\ UNCHANGED result

\* run(), K_r: the selection, the file test, and the replay it enters
RunKeyR ==
    /\ vw_pc = "idle"
    /\ \E participant_num \in ParticipantInputs, trial_num \in TrialInputs :
          LET sel == GetTrialSelection(participant_num, trial_num)
          IN  IF sel = <<>>
              THEN UNCHANGED vwVars
              ELSE IF GetDataFilePath(sel[1], sel[2]) \notin DOMAIN vw_disk
              THEN UNCHANGED vwVars
              ELSE /\ is_paused' = TRUE
                   /\ ReplayTrialBegins(GetDataFilePath(sel[1], sel[2]))
                   /\ UNCHANGED vw_disk
    /\ UNCHANGED <<recorderVars, rtVars, nmVars>>

\* run(), K_ESCAPE and QUIT
RunEscape ==
    /\ vw_pc = "idle"
    /\ VwClose
    /\ UNCHANGED <<vw_disk, is_paused, spacebar_events, events_data, counter,
                   previous_position, previous_timestamp, result, status_message,
                   delays, segments>>
    /\ UNCHANGED <<recorderVars, rtVars, nmVars>>

\* _replay_trial, K_p
ReplayKeyP ==
    /\ vw_pc = "replay"
    /\ is_paused' = ~is_paused
    /\ UNCHANGED <<vw_pc, vw_disk, spacebar_events, events_data, counter,
                   previous_position, previous_timestamp, result, status_message,
                   delays, segments>>
    /\ UNCHANGED <<recorderVars, rtVars, nmVars>>

\* _replay_trial, QUIT: return -1, and run() stops on -1
ReplayQuit ==
    /\ vw_pc = "replay"
    /\ result' = <<-1>>
    /\ VwClose
    /\ UNCHANGED <<vw_disk, is_paused, spacebar_events, events_data, counter,
                   previous_position, previous_timestamp, status_message,
                   delays, segments>>
    /\ UNCHANGED <<recorderVars, rtVars, nmVars>>

\* _replay_trial, K_q: return -1, and run() stops on -1
ReplayKeyQ ==
    /\ vw_pc = "replay"
    /\ result' = <<-1>>
    /\ VwClose
    /\ UNCHANGED <<vw_disk, is_paused, spacebar_events, events_data, counter,
                   previous_position, previous_timestamp, status_message,
                   delays, segments>>
    /\ UNCHANGED <<recorderVars, rtVars, nmVars>>

\* _replay_trial, K_r: return 1, and run() goes on with its own loop
ReplayKeyR ==
    /\ vw_pc = "replay"
    /\ result' = <<1>>
    /\ vw_pc' = "idle"
    /\ UNCHANGED <<vw_disk, is_paused, spacebar_events, events_data, counter,
                   previous_position, previous_timestamp, status_message,
                   delays, segments>>
    /\ UNCHANGED <<recorderVars, rtVars, nmVars>>

\* variant: every sample leaves a marker
ProcessDataPointMarksAll ==
    LET timestamp == events_data[counter + 1][1]
        current_position == <<events_data[counter + 1][2], events_data[counter + 1][3]>>
        spacebar_event == events_data[counter + 1][4]
    IN  /\ segments' = segments \o DrawTrajectorySegment(previous_position, current_position)
        /\ spacebar_events' = IF spacebar_event \in {0, 1}
                              THEN Append(spacebar_events, current_position)
                              ELSE spacebar_events
        /\ delays' = Append(delays, Slept(counter, timestamp, previous_timestamp))
        /\ previous_position' = current_position
        /\ previous_timestamp' = timestamp
        /\ counter' = counter + 1
\* variant: previous_timestamp is not updated
ProcessDataPointStaleTimestamp ==
    LET timestamp == events_data[counter + 1][1]
        current_position == <<events_data[counter + 1][2], events_data[counter + 1][3]>>
        spacebar_event == events_data[counter + 1][4]
    IN  /\ segments' = segments \o DrawTrajectorySegment(previous_position, current_position)
        /\ spacebar_events' = IF spacebar_event = 1
                              THEN Append(spacebar_events, current_position)
                              ELSE spacebar_events
        /\ delays' = Append(delays, Slept(counter, timestamp, previous_timestamp))
        /\ previous_position' = current_position
        /\ previous_timestamp' = previous_timestamp
        /\ counter' = counter + 1
\* variant: the cursor advances by two
ProcessDataPointSkips ==
    LET timestamp == events_data[counter + 1][1]
        current_position == <<events_data[counter + 1][2], events_data[counter + 1][3]>>
        spacebar_event == events_data[counter + 1][4]
    IN  /\ segments' = segments \o DrawTrajectorySegment(previous_position, current_position)
        /\ spacebar_events' = IF spacebar_event = 1
                              THEN Append(spacebar_events, current_position)
                              ELSE spacebar_events
        /\ delays' = Append(delays, Slept(counter, timestamp, previous_timestamp))
        /\ previous_position' = current_position
        /\ previous_timestamp' = timestamp
        /\ counter' = counter + 2
\* _replay_trial, `if not self.is_paused`: the sample at `counter` is processed
ProcessDataPoint ==
    LET timestamp == events_data[counter + 1][1]
        current_position == <<events_data[counter + 1][2], events_data[counter + 1][3]>>
        spacebar_event == events_data[counter + 1][4]
    IN  /\ segments' = segments \o DrawTrajectorySegment(previous_position, current_position)
        /\ spacebar_events' = IF spacebar_event = 1
                              THEN Append(spacebar_events, current_position)
                              ELSE spacebar_events
        /\ delays' = Append(delays, Slept(counter, timestamp, previous_timestamp))
        /\ previous_position' = current_position
        /\ previous_timestamp' = timestamp
        /\ counter' = counter + 1

\* variant: the sample is processed whether paused or not
RefreshIgnoresPause ==
    /\ vw_pc = "replay"
    /\ ProcessDataPoint
    /\ IF counter + 1 < Len(events_data)
       THEN /\ status_message' = <<"PLAYING", counter + 1>>
            /\ UNCHANGED <<vw_pc, result>>
       ELSE /\ status_message' = <<"Replay completed", counter + 1>>
            /\ result' = <<0>>
            /\ vw_pc' = "idle"
    /\ UNCHANGED <<vw_disk, is_paused, events_data>>
    /\ UNCHANGED <<recorderVars, rtVars, nmVars>>
\* _replay_trial: the rest of one turn of its loop after the events, and the
\* return when the loop ends
Refresh ==
    /\ vw_pc = "replay"
    /\ IF is_paused
       THEN /\ status_message' = <<"PAUSED", counter>>
            /\ UNCHANGED <<vw_pc, result, spacebar_events, counter, previous_position,
                           previous_timestamp, delays, segments>>
       ELSE /\ ProcessDataPoint
            /\ IF counter + 1 < Len(events_data)
               THEN /\ status_message' = <<"PLAYING", counter + 1>>
                    /\ UNCHANGED <<vw_pc, result>>
               ELSE /\ status_message' = <<"Replay completed", counter + 1>>
                    /\ result' = <<0>>
                    /\ vw_pc' = "idle"
    /\ UNCHANGED <<vw_disk, is_paused, events_data>>
    /\ UNCHANGED <<recorderVars, rtVars, nmVars>>

VwNext ==
    \/ RunKeyR
    \/ RunEscape
    \/ ReplayKeyP
    \/ ReplayKeyQ
    \/ ReplayQuit
    \/ ReplayKeyR
    \/ Refresh

SpecViewer == VwInit /\ [][VwNext]_vars

\* the loop of _replay_trial keeps turning
SpecViewerFair == SpecViewer /\ WF_vars(Refresh)

---------------------------------------------------------------------------
(* Claims about the viewer *)

\* C12: when the selected file exists and its load fails for want of a usable
\* row, the replay is abandoned and the viewer is in its no-session loop, still
\* running.
C12_InvalidRecordKeepsRunning ==
    [][(result' = <<-1>> /\ RunKeyR) => vw_pc' = "idle"]_vars
\* the first selection named the file without a usable row: no pass ever began
\* and the viewer is closed
C12_Witness ==
    /\ vw_pc = "closed" /\ result = <<-1>>
    /\ events_data = <<>>
    /\ LoadTrialData(vw_disk, GetDataFilePath(2, 1)).status = "Exception"

\* C13: a restart command during a pass, paused or playing, leaves the viewer in
\* a pass over the same record, paused, with the cursor at 0 and no marker.
C13_RestartReentersLoaded ==
    [][ReplayKeyR
         => (/\ vw_pc' = "replay"
             /\ events_data' = events_data
             /\ is_paused'
             /\ counter' = 0
             /\ spacebar_events' = <<>>)]_vars
\* after a restart while playing: no pass, the cursor and the marker of the
\* abandoned pass, not paused
C13_Witness ==
    /\ vw_pc = "idle" /\ result = <<1>>
    /\ counter > 0 /\ spacebar_events # <<>> /\ ~is_paused

\* C14: the Q command during a pass ends the replay and leaves the viewer in its
\* no-session loop, still running.
C14_StopKeepsRunning ==
    [][ReplayKeyQ => vw_pc' = "idle"]_vars
\* the viewer was closed in the middle of a pass
C14_Witness ==
    /\ vw_pc = "closed" /\ result = <<-1>>
    /\ 0 < counter /\ counter < Len(events_data)

\* the pass has run to its end and no other has begun
Completed ==
    vw_pc = "idle" /\ status_message = <<"Replay completed", Len(events_data)>>

\* the timestamp difference between sample k and the one before it, a delay
\* only when positive and never above the cap
PacingDelay(k) ==
    LET d == events_data[k][1] - events_data[k - 1][1]
    IN  IF d <= 0 THEN 0 ELSE IF d > DelayCap THEN DelayCap ELSE d

\* C15: the delays of a pass are, in order, the differences of successive
\* timestamps capped at DelayCap, with no delay for a difference that is not
\* positive; no delay exceeds the cap.
C15_DelaysAreCappedDifferences ==
    /\ Len(delays) = counter
    /\ \A k \in 1..counter : delays[k] <= DelayCap
    /\ counter >= 1 => delays[1] = 0
    /\ \A k \in 2..counter : delays[k] = PacingDelay(k)
\* 0.0, 0.05 and 0.2 s: delays of 0.05 s and the cap, not 0.15 s
C15_Witness ==
    /\ Completed
    /\ Len(events_data) = 3
    /\ events_data[3][1] - events_data[2][1] > DelayCap
    /\ delays = <<0, Ms(50), DelayCap>>

\* the positions of the samples below the cursor c whose event flag is 1
Flagged(sample) == sample[4] = 1
MarkersBelow(c) ==
    LET sel == SelectSeq(SubSeq(events_data, 1, c), Flagged)
    IN  [k \in 1..Len(sel) |-> <<sel[k][2], sel[k][3]>>]

\* C16: during a pass the markers are the positions of the samples with event
\* flag 1 below the cursor, in order, and no step of the pass removes a marker.
C16_MarkersFollowCursor ==
    /\ [](vw_pc = "replay" => spacebar_events = MarkersBelow(counter))
    /\ [][vw_pc = "replay"
            => /\ Len(spacebar_events') >= Len(spacebar_events)
               /\ SubSeq(spacebar_events', 1, Len(spacebar_events)) = spacebar_events]_vars
\* paused after the second sample, whose flag is 1, with resumes and pauses before
C16_Witness ==
    /\ vw_pc = "replay" /\ is_paused
    /\ counter = 2
    /\ events_data[1][4] = 0 /\ events_data[2][4] = 1
    /\ spacebar_events = << <<events_data[2][2], events_data[2][3]>> >>

\* C17: a pass begins paused; while paused a turn of the loop changes neither
\* the cursor, the markers nor the previous position and sleeps for nothing;
\* the pause toggle, quit and restart commands are taken while paused.
C17_PausedSuspendsAdvance ==
    /\ [][(vw_pc # "replay" /\ vw_pc' = "replay") => is_paused']_vars
    /\ [][(is_paused /\ Refresh)
            => UNCHANGED <<counter, spacebar_events, previous_position,
                           previous_timestamp, delays, segments>>]_vars
    /\ [][(is_paused /\ ReplayKeyP) => ~is_paused']_vars
    /\ [][(is_paused /\ (ReplayKeyQ \/ ReplayKeyR)) => vw_pc' # "replay"]_vars
    /\ [](vw_pc = "replay" /\ is_paused
            => ENABLED ReplayKeyP /\ ENABLED ReplayKeyQ /\ ENABLED ReplayKeyR)
\* paused in the middle of a pass, and a turn of the loop has shown it
C17_Witness ==
    /\ vw_pc = "replay" /\ is_paused
    /\ counter = 1 /\ Len(events_data) = 3
    /\ status_message = <<"PAUSED", 1>>

\* C18 as stated: the delay applied while sample i is processed, after it is
\* drawn and before the cursor passes it, is the capped difference between the
\* next sample's timestamp and its own, and none for the last sample.
C18_DelayFromNextSample ==
    [][(~is_paused /\ Refresh)
         => delays' = Append(delays,
                             IF counter + 1 < Len(events_data)
                             THEN PacingDelay(counter + 2)
                             ELSE 0)]_vars

\* C18 as amended: the delay applied while sample i is processed, after it is
\* drawn and before the cursor passes it, is the capped difference between its
\* own timestamp and the previous sample's; none for the first sample, and the
\* last sample has its delay like the others.
C18_DelayFromPreviousSample ==
    [][(~is_paused /\ Refresh)
         => /\ delays' = Append(delays,
                                IF counter = 0 THEN 0 ELSE PacingDelay(counter + 1))
            /\ counter' = counter + 1]_vars
\* the first sample of 0.0, 0.05, 0.2 s was processed with no delay
C18_Witness ==
    /\ vw_pc = "replay" /\ ~is_paused
    /\ counter = 1 /\ delays = <<0>>
    /\ Len(events_data) = 3
    /\ events_data[2][1] - events_data[1][1] = Ms(50)

\* the position of sample k
PositionOf(k) == <<events_data[k][2], events_data[k][3]>>

\* C19: a completed pass over N samples has drawn N - 1 segments, the i-th from
\* sample i to the sample after it, whatever the positions are.
C19_SegmentPerSample ==
    Completed =>
        segments = [i \in 1..(Len(events_data) - 1) |-> <<PositionOf(i), PositionOf(i + 1)>>]
\* the first sample is at (-1, -1): the pass over three samples drew one segment
C19_Witness ==
    /\ Completed
    /\ Len(events_data) = 3
    /\ PositionOf(1) = NoPosition
    /\ segments = << <<PositionOf(2), PositionOf(3)>> >>

\* C20: the cursor stays within 0..N and no step of a pass lowers it; a pass
\* that is playing is eventually completed unless it is paused, quit or
\* restarted; at completion the cursor is N, and afterwards cursor and markers
\* stay as they are until another pass begins.
C20_PassRunsToCompletion ==
    /\ [](counter \in 0..Len(events_data))
    /\ [][vw_pc = "replay" => counter' >= counter]_vars
    /\ (vw_pc = "replay" /\ ~is_paused)
          ~> (\/ Completed
              \/ is_paused
              \/ vw_pc = "closed"
              \/ (vw_pc = "idle" /\ result = <<1>>))
    /\ [](Completed => counter = Len(events_data))
    /\ [][(Completed /\ vw_pc' # "replay")
            => (counter' = counter /\ spacebar_events' = spacebar_events)]_vars
\* a pass over three samples ran to its end while playing
C20_Witness ==
    /\ Completed /\ ~is_paused
    /\ counter = 3 /\ Len(events_data) = 3
    /\ result = <<0>>
---------------------------------------------------------------------------
(* The recorder: one record, one file *)

\* the latest step saved the in-progress record: the file it wrote carries the
\* trial number the save has just counted past
JustSaved ==
    /\ written # NoFile
    /\ trial_number > 1
    /\ written.name = TrajectoryFileName(participant_number, trial_number - 1)

\* a step that saves the in-progress record: _save_trajectory_data returned True
SuccessfulSave == written' # NoFile /\ trial_number' = trial_number + 1

(* run(), observed for what became of the record of the tracking pass *)

PassKeyDown(key) ==
    /\ running
    /\ HandleKeydown(key)
    /\ (key = "K_y" /\ save_prompt) \/ written' = NoFile
    /\ persisted' = IF key = "K_s" /\ StartGuard THEN FALSE
                    ELSE IF key = "K_y" /\ save_prompt THEN persisted \/ SuccessfulSave
                    ELSE IF key = "K_ESCAPE" THEN FALSE
                    ELSE persisted
    /\ UNCHANGED <<rtVars, nmVars, vwVars>>

PassKeyDownS == PassKeyDown("K_s")
PassKeyDownQ == PassKeyDown("K_q")
PassKeyDownY == PassKeyDown("K_y")
PassKeyDownN == PassKeyDown("K_n")
PassKeyDownSpace == PassKeyDown("K_SPACE")
PassKeyDownEscape == PassKeyDown("K_ESCAPE")

PassKeyUpSpace ==
    /\ running
    /\ HandleKeyup("K_SPACE")
    /\ written' = NoFile
    /\ UNCHANGED <<persisted, rtVars, nmVars, vwVars>>

PassMouseMotion ==
    /\ running
    /\ tracking => Len(mouse_positions) < MaxSamples
    /\ \E pos \in Positions : HandleMouseMotion(pos)
    /\ written' = NoFile
    /\ UNCHANGED <<persisted, rtVars, nmVars, vwVars>>

PassQuitEvent ==
    /\ running
    /\ SessionEnds
    /\ written' = NoFile
    /\ persisted' = FALSE
    /\ UNCHANGED <<rtVars, nmVars, vwVars>>

PassNext ==
    \/ PassKeyDownS
    \/ PassKeyDownQ
    \/ PassKeyDownY
    \/ PassKeyDownN
    \/ PassKeyDownSpace
    \/ PassKeyDownEscape
    \/ PassKeyUpSpace
    \/ PassMouseMotion
    \/ PassQuitEvent

SpecOnePass == Init /\ [][PassNext]_vars

\* C21: the samples of one tracking pass are saved under at most one
\* (participant, trial) pair: once the record has been saved, no step saves it
\* again before a start is accepted.
C21_RecordSavedOnce ==
    [][persisted => ~SuccessfulSave]_vars

\* the record of the pass has been saved, no start has been accepted since, and
\* the save prompt is up for it again
C21_Witness ==
    persisted /\ ~tracking /\ save_prompt /\ mouse_positions # <<>>

\* C22: at most one of tracking, the save prompt and the advance prompt is
\* active: the session is in exactly one of Idle, Tracking, SavePrompt and
\* AdvancePrompt.
C22_OneModeAtATime ==
    /\ ~(tracking /\ save_prompt)
    /\ ~(tracking /\ next_participant)
    /\ ~(save_prompt /\ next_participant)

\* tracking runs while the save prompt is up
C22_Witness ==
    running /\ tracking /\ save_prompt /\ ~next_participant

---------------------------------------------------------------------------
(* The recorder: no record is overwritten *)

====
